---- MODULE Spec2Model ----
(***************************************************************************)
(* Model of the voice-command recorder of rhasspy-rpizero:                 *)
(*   src/rpizrecorder.py     RpizCommandRecorder (reset, process_chunk,    *)
(*                           record, is_silence)                           *)
(*   src/rhasspy_rpizero.py  the main loop (wake word, record)             *)
(*                                                                         *)
(* Audio bytes are modelled by their position in the stream the microphone *)
(* delivers during one record() call (1, 2, 3, ...), so that order, loss   *)
(* and duplication of audio are visible.  Durations are whole seconds and  *)
(* the configuration is scaled down (the program runs 16000 Hz, 960-byte   *)
(* chunks, 20 s); every derived count is computed from the configuration   *)
(* the way reset() and record() compute it.  Event times are counted in    *)
(* buffers (current_seconds / seconds_per_buffer).                         *)
(***************************************************************************)
EXTENDS Integers, Sequences, FiniteSets, TLC

(***************************************************************************)
(* Configuration, RpizCommandRecorder.__init__ (scaled).                   *)
(***************************************************************************)
sample_rate == 2

chunk_size == 2

max_timeout == 3

skip_seconds == 0

min_seconds == 3

speech_seconds == 2

silence_seconds == 2

before_seconds == 3

\* Largest number of bytes one mic.read() hands to process_chunk.
MaxReadBytes == 9

\* The sizes of the byte strings mic.read(chunk_size) returns: chunk_size
\* frames of 16-bit mono audio, i.e. 2 * chunk_size bytes, from the PyAudio
\* stream the main program opens; and, for other sources, a single byte,
\* chunk_size bytes, and the largest.
ReadSizes == {1, chunk_size, 2 * chunk_size, MaxReadBytes}

\* typing.Optional: None, or a value.
None == << >>

Some(x) == << x >>

\* Python truthiness of an Optional[int]: None and 0 are false.
Truthy(opt) == opt # None /\ opt[1] # 0

\* int(math.ceil(seconds / self.seconds_per_buffer)) with
\* seconds_per_buffer = chunk_size / sample_rate.
CeilBuffers(seconds) == ((seconds * sample_rate) + chunk_size - 1) \div chunk_size

before_buffers == CeilBuffers(before_seconds)

speech_buffers == CeilBuffers(speech_seconds)

skip_buffers == CeilBuffers(skip_seconds)

min_buffers == CeilBuffers(min_seconds)

silence_confirm_buffers == CeilBuffers(silence_seconds)

\* int(self.sample_rate / self.chunk_size * self.max_timeout)
RecordIterations == (sample_rate * max_timeout) \div chunk_size

\* SilenceMethod of the recorder the main loop constructs (the default).
silence_method == "vad_only"

\* class SilenceMethod
SilenceMethods ==
    {"vad_only", "ratio_only", "current_only", "vad_and_ratio", "vad_and_current", "all"}

\* "if self.silence_method in [VAD_ONLY, VAD_AND_RATIO, VAD_AND_CURRENT, ALL]"
UsesVad(method) == method \in {"vad_only", "vad_and_ratio", "vad_and_current", "all"}

\* "if self.silence_method in [VAD_AND_RATIO, RATIO_ONLY, ALL]"
UsesRatio(method) == method \in {"vad_and_ratio", "ratio_only", "all"}

\* "if self.silence_method in [VAD_AND_CURRENT, CURRENT_ONLY, ALL]"
UsesCurrent(method) == method \in {"vad_and_current", "current_only", "all"}

use_vad == UsesVad(silence_method)

\* self.vad_mode
vad_mode == 3

\* self.max_current_ratio_threshold and self.current_energy_threshold as
\* __init__ sets them.
max_current_ratio_threshold == None

current_energy_threshold == None

\* The chunk taken for samples, not for bytes of 16-bit samples.
ChunkMsOk_NoHalving(sr, cs) == \E ms \in {10, 20, 30} : 1000 * cs = ms * sr

\* "chunk_ms = 1000 * ((self.chunk_size / 2) / self.sample_rate)
\*  assert chunk_ms in [10, 20, 30]", in exact arithmetic.
ChunkMsOk(sr, cs) == \E ms \in {10, 20, 30} : 1000 * cs = 2 * ms * sr

ConstructFails(error) == [ok |-> FALSE, error |-> error]

\* RpizCommandRecorder.__init__ for a sample rate, a chunk size (bytes) and
\* a silence method: the recorder is constructed, or an assertion fails.
Construct(sr, cs, method) ==
    IF UsesRatio(method) /\ max_current_ratio_threshold = None
      THEN ConstructFails("Max/current ratio threshold is required")
    ELSE IF UsesCurrent(method) /\ current_energy_threshold = None
      THEN ConstructFails("Current energy threshold is required")
    ELSE IF UsesVad(method) /\ vad_mode \notin 1..3
      THEN ConstructFails("VAD mode must be 1-3")
    ELSE IF UsesVad(method) /\ ~ChunkMsOk(sr, cs)
      THEN ConstructFails("Sample rate and chunk size must make for 10, 20, or 30 ms")
    ELSE [ok |-> TRUE, error |-> ""]

\* The attributes of a recorder that is_silence reads, for a silence
\* method and the two thresholds (None as __init__ leaves them).
ClassifierAttrs(method, ratio_threshold, energy_threshold, max_energy) ==
    [ use_vad |-> UsesVad(method), use_ratio |-> UsesRatio(method),
      use_current |-> UsesCurrent(method),
      max_energy |-> max_energy, dynamic_max_energy |-> TRUE,
      max_current_ratio_threshold |-> ratio_threshold,
      current_energy_threshold |-> energy_threshold ]

\* The name WebRtcVadRecorder in rpizrecorder.py: the module defines
\* RpizCommandRecorder and imports no WebRtcVadRecorder.
WebRtcVadRecorderDefined == FALSE

ClassifierRaises(self, error) ==
    [raised |-> TRUE, error |-> error, silence |-> FALSE, max_energy |-> self.max_energy]

\* RpizCommandRecorder.is_silence on the attributes self, for a chunk for
\* which webrtcvad answers vad_speech and whose debiased energy is energy:
\* the verdict and max_energy afterwards, or the exception raised.
is_silence_of(self, vad_speech, energy) ==
    LET vad_silence == IF self.use_vad THEN ~vad_speech ELSE TRUE
    IN
    IF ~(self.use_ratio \/ self.use_current) THEN
        [raised |-> FALSE, error |-> "", silence |-> vad_silence,
         max_energy |-> self.max_energy]
    ELSE IF ~WebRtcVadRecorderDefined THEN
        ClassifierRaises(self, "NameError")
    ELSE IF self.use_ratio THEN
        LET mx == IF ~self.dynamic_max_energy THEN self.max_energy
                  ELSE IF self.max_energy = None THEN Some(energy)
                  ELSE IF energy > self.max_energy[1] THEN Some(energy)
                  ELSE self.max_energy
            after == [self EXCEPT !.max_energy = mx]
        IN
        IF mx = None \/ self.max_current_ratio_threshold = None
          THEN ClassifierRaises(after, "AssertionError")
        ELSE
          \* "ratio = self.max_energy / energy" if energy > 0, else 0
          LET ratio_above == IF energy > 0
                               THEN mx[1] > self.max_current_ratio_threshold[1] * energy
                             ELSE 0 > self.max_current_ratio_threshold[1]
          IN  [raised |-> FALSE, error |-> "", silence |-> vad_silence /\ ratio_above,
               max_energy |-> mx]
    ELSE
        IF self.current_energy_threshold = None
          THEN ClassifierRaises(self, "AssertionError")
        ELSE [raised |-> FALSE, error |-> "",
              silence |-> vad_silence /\ energy < self.current_energy_threshold[1],
              max_energy |-> self.max_energy]

\* True if the chunk contains silence, for the recorder the main loop
\* constructs; vad_speech is the verdict of webrtcvad's is_speech for the
\* chunk.
is_silence(vad_speech) ==
    is_silence_of(ClassifierAttrs(silence_method, max_current_ratio_threshold,
                                  current_energy_threshold, None),
                  vad_speech, 0).silence

Event(type, time) == [type |-> type, time |-> time]

VoiceCommand(result, audio_data, events) ==
    [result |-> result, audio_data |-> audio_data, events |-> events]

Types(events) == [k \in 1..Len(events) |-> events[k].type]

RECURSIVE Concat(_)
\* b"".join(chunks)
Concat(chunks) ==
    IF chunks = << >> THEN << >> ELSE Head(chunks) \o Concat(Tail(chunks))

\* A deque that never evicts.
DequeAppend_Unbounded(dq, x, maxlen) == dq \o << x >>

\* deque(maxlen = maxlen).append(x): the oldest element is evicted when full.
DequeAppend(dq, x, maxlen) ==
    IF maxlen = 0 THEN << >>
    ELSE IF Len(dq) >= maxlen THEN Tail(dq) \o << x >>
    ELSE dq \o << x >>

\* The session attributes before the first reset() (they do not exist yet;
\* record() resets before it reads any of them).
NewRecorder ==
    [ events |-> << >>, before_phrase_chunks |-> << >>, phrase_buffer |-> << >>,
      max_buffers |-> None, min_phrase_buffers |-> 0, skip_buffers_left |-> 0,
      speech_buffers_left |-> 0, last_speech |-> FALSE, in_phrase |-> FALSE,
      after_phrase |-> FALSE, silence_buffers |-> 0, current_seconds |-> 0,
      current_chunk |-> << >>, first_chunk |-> FALSE ]

\* reset() as it would be if it forgot the leftover of the last call.
reset_keeps_leftover(self) ==
    [ NewRecorder EXCEPT
        !.current_chunk = self.current_chunk,
        !.speech_buffers_left = 1,
        !.silence_buffers = 1,
        !.first_chunk = TRUE ]

\* RpizCommandRecorder.reset
reset(self) ==
    [ self EXCEPT
        !.events = << >>,
        !.before_phrase_chunks = << >>,
        !.phrase_buffer = << >>,
        !.max_buffers = None,
        !.min_phrase_buffers = 0,
        !.skip_buffers_left = 0,
        !.speech_buffers_left = 1,
        !.last_speech = FALSE,
        !.in_phrase = FALSE,
        !.after_phrase = FALSE,
        !.silence_buffers = 1,
        !.current_seconds = 0,
        !.current_chunk = << >>,
        !.first_chunk = TRUE ]

\* The record a block of assignments has made of a when the first k of them
\* are done: order names the attributes in the order the block assigns
\* them, and b is the record once the block is over.
Partial(a, b, order, k) ==
    [f \in DOMAIN a |-> IF \E j \in 1..k : order[j] = f THEN b[f] ELSE a[f]]

\* The session attributes in the order reset() assigns them.
ResetOrder ==
    << "events", "before_phrase_chunks", "phrase_buffer", "max_buffers",
       "min_phrase_buffers", "skip_buffers_left", "speech_buffers_left",
       "last_speech", "in_phrase", "after_phrase", "silence_buffers",
       "current_seconds", "current_chunk", "first_chunk" >>

\* A state of the recorder in which a KeyboardInterrupt (or SystemExit)
\* raised inside one of its methods leaves it, with what had been observed
\* of the session by then (h); mid: the interrupt came between two
\* statements of the method's work on one chunk, or of reset().
Point(self, h, mid) == [self |-> self, h |-> h, mid |-> mid]

(***************************************************************************)
(* process_chunk, one step of it per operator.                             *)
(***************************************************************************)

\* Buffering that also keeps filling the pre-roll during the phrase.
BufferChunk_Both(self, chunk) ==
    [self EXCEPT
       !.phrase_buffer = IF self.in_phrase THEN @ \o chunk ELSE @,
       !.before_phrase_chunks = DequeAppend(@, chunk, before_buffers)]

\* "if self.in_phrase: self.phrase_buffer += chunk
\*  else: self.before_phrase_chunks.append(chunk)"
BufferChunk(self, chunk) ==
    IF self.in_phrase
    THEN [self EXCEPT !.phrase_buffer = @ \o chunk]
    ELSE [self EXCEPT !.before_phrase_chunks = DequeAppend(@, chunk, before_buffers)]

\* "if self.max_buffers: self.max_buffers -= 1": the budget after the chunk.
TickMaxBuffers(self) ==
    IF Truthy(self.max_buffers)
    THEN [self EXCEPT !.max_buffers = Some(@[1] - 1)]
    ELSE self

\* "if self.max_buffers: ... if self.max_buffers <= 0": the budget ran out
\* on this chunk (self is the state before the decrement).
TimedOut(self) == Truthy(self.max_buffers) /\ self.max_buffers[1] - 1 <= 0

\* The Failure command of the timeout branch.
TimeoutCommand(self) ==
    VoiceCommand("failure", None,
                 self.events \o << Event("timeout", self.current_seconds) >>)

\* No early exit for silence before the phrase.
PrePhraseSilence_Never(self, is_speech) == FALSE

\* "if not is_speech and not self.in_phrase": silence before the phrase is
\* logged and the chunk is done with.
PrePhraseSilence(self, is_speech) == ~is_speech /\ ~self.in_phrase

\* Level-triggered events: one per chunk.
EdgeEvents_Level(self, is_speech) ==
    [self EXCEPT
       !.events = @ \o << Event(IF is_speech THEN "speech" ELSE "silence",
                                self.current_seconds) >>,
       !.last_speech = is_speech]

\* The Speech / Silence events and last_speech.
EdgeEvents(self, is_speech) ==
    LET ev == IF is_speech /\ ~self.last_speech
                THEN << Event("speech", self.current_seconds) >>
              ELSE IF ~is_speech /\ self.last_speech
                THEN << Event("silence", self.current_seconds) >>
              ELSE << >>
    IN  [self EXCEPT !.events = @ \o ev, !.last_speech = is_speech]

\* "before_buffer + self.phrase_buffer"
MergeAudio(self) == Concat(self.before_phrase_chunks) \o self.phrase_buffer

\* "<" for "<=": the count never gets below zero.
PhraseComplete_Strict(self) == self.after_phrase /\ self.silence_buffers < 0

\* "elif self.after_phrase and (self.silence_buffers <= 0)": phrase complete.
PhraseComplete(self) == self.after_phrase /\ self.silence_buffers <= 0

\* A phrase that starts again on speech until after_phrase is set.
PhraseStarts_Again(self, is_speech) == is_speech /\ ~self.after_phrase

\* "elif is_speech and not self.in_phrase": start of phrase.
PhraseStarts(self, is_speech) == is_speech /\ ~self.in_phrase

\* A minimum that only speech counts down.
InMinimum_SpeechOnly(self, is_speech) ==
    self.in_phrase /\ self.min_phrase_buffers > 0 /\ is_speech

\* "elif self.in_phrase and (self.min_phrase_buffers > 0)": in phrase,
\* before minimum seconds, whatever the chunk is.
InMinimum(self, is_speech) == self.in_phrase /\ self.min_phrase_buffers > 0

\* "Handle state changes": the new state and the command returned (or None).
StateChange(self, is_speech) ==
    IF is_speech /\ self.speech_buffers_left > 0 THEN
        [self |-> [self EXCEPT !.speech_buffers_left = @ - 1], out |-> None]
    ELSE IF PhraseStarts(self, is_speech) THEN
        [self |-> [self EXCEPT
                     !.events = @ \o << Event("started", self.current_seconds) >>,
                     !.in_phrase = TRUE,
                     !.after_phrase = FALSE,
                     !.min_phrase_buffers = min_buffers],
         out |-> None]
    ELSE IF InMinimum(self, is_speech) THEN
        [self |-> [self EXCEPT !.min_phrase_buffers = @ - 1], out |-> None]
    ELSE IF ~is_speech THEN
        IF ~self.in_phrase THEN
            [self |-> [self EXCEPT !.speech_buffers_left = speech_buffers],
             out |-> None]
        ELSE IF self.after_phrase /\ self.silence_buffers > 0 THEN
            [self |-> [self EXCEPT !.silence_buffers = @ - 1], out |-> None]
        ELSE IF PhraseComplete(self) THEN
            LET stopped == [self EXCEPT
                   !.events = @ \o << Event("stopped", self.current_seconds) >>]
            IN  [self |-> stopped,
                 out |-> Some(VoiceCommand("success", Some(MergeAudio(stopped)),
                                           stopped.events))]
        ELSE IF self.in_phrase /\ self.min_phrase_buffers <= 0 THEN
            [self |-> [self EXCEPT !.after_phrase = TRUE,
                                   !.silence_buffers = silence_confirm_buffers],
             out |-> None]
        ELSE [self |-> self, out |-> None]
    ELSE [self |-> self, out |-> None]

\* The negation dropped.
IsSpeech_NotNegated(silence) == silence

\* "is_speech = not self.is_silence(chunk)"
IsSpeech(silence) == ~silence

\* No exemption: the first chunk is classified like the others.
FirstChunkExempt_Never(self) == FALSE

\* "if self.first_chunk:" (skip the first chunk)
FirstChunkExempt(self) == self.first_chunk

\* "while len(self.current_chunk) > self.chunk_size"
HasChunk(self) == Len(self.current_chunk) > chunk_size

\* The attributes "Speech / Silence events and last_speech" and "Handle
\* state changes" assign, in the order of the lines that assign them (a
\* branch assigns some of them).
EdgeOrder == << "events", "last_speech" >>

StateOrder ==
    << "speech_buffers_left", "events", "in_phrase", "after_phrase",
       "min_phrase_buffers", "silence_buffers" >>

\* The recorder between the assignments of a block that takes a to b.
Between(a, b, order) == { Partial(a, b, order, k) : k \in 1..Len(order) }

\* What webrtcvad answers for a chunk: speech, no speech, or an Exception.
Verdicts == {"speech", "silence", "raise"}

\* What is recorded about a session besides the recorder's own attributes:
\*   fed     bytes handed to process_chunk since reset()
\*   chunks  the chunks the loop of process_chunk extracted, in order
\*   sil     what is_silence returned for every chunk it was asked about,
\*           in order
\*   nphrase chunks appended to phrase_buffer
\*   reads   mic.read() calls of this record() that returned or raised an
\*           Exception
\*   faulted an Exception was raised, and caught, inside record()
\*   interrupted
\*           a KeyboardInterrupt or SystemExit was raised inside record()
\*   midway  that interrupt came between two statements of reset() or of
\*           the work of process_chunk on one chunk
\*   out     the first command process_chunk returned
\*   started_at
\*           the position in sil of the chunk on which Started was
\*           emitted (0: not yet)
\*   pps     the last silent chunk classified while no phrase had started:
\*           the chunk, and the recorder before and after it (Snapshot)
\*   asr_sent, asr_ok, nlu_sent
\*           the main loop posted the session's audio to the
\*           speech-to-text endpoint, got a good response, posted the text
\*           to the intent endpoint
NewHistory ==
    [fed |-> 0, chunks |-> << >>, sil |-> << >>, nphrase |-> 0, reads |-> 0,
     faulted |-> FALSE, interrupted |-> FALSE, midway |-> FALSE, out |-> None,
     started_at |-> 0,
     pps |-> None,
     asr_sent |-> FALSE, asr_ok |-> FALSE, nlu_sent |-> FALSE]

\* The attributes of a session that do not depend on how the audio was
\* split into reads.
Snapshot(self) ==
    [ events |-> self.events, before_phrase_chunks |-> self.before_phrase_chunks,
      phrase_buffer |-> self.phrase_buffer, current_seconds |-> self.current_seconds,
      min_phrase_buffers |-> self.min_phrase_buffers,
      speech_buffers_left |-> self.speech_buffers_left,
      silence_buffers |-> self.silence_buffers, last_speech |-> self.last_speech,
      in_phrase |-> self.in_phrase, after_phrase |-> self.after_phrase ]

\* The history after a classified chunk took the recorder from before to
\* after.
NoteChunk(h, chunk, silence, before, after) ==
    IF silence /\ ~before.in_phrase
    THEN [h EXCEPT !.pps = Some([chunk |-> chunk, before |-> Snapshot(before),
                                 after |-> Snapshot(after)])]
    ELSE h

RECURSIVE process_loop(_, _)
\* The while loop of process_chunk on c = [self, out, raised, h, points];
\* verdicts are the outcomes of the classifier's calls still to come.  An
\* Exception raised in is_silence leaves the loop with the chunk extracted,
\* buffered and counted, and not classified.  points collects the states
\* the loop goes through, statement by statement: the states an interrupt
\* can leave the recorder in.
process_loop(c, verdicts) ==
    LET c0 == [c EXCEPT !.points = @ \cup { Point(c.self, c.h, FALSE) }] IN
    IF ~HasChunk(c.self) THEN c0
    ELSE
      LET cur    == c.self.current_chunk
          chunk  == SubSeq(cur, 1, chunk_size)
          s1     == [c.self EXCEPT !.current_chunk = SubSeq(cur, chunk_size + 1, Len(cur))]
          h1     == [c.h EXCEPT !.chunks = @ \o << chunk >>]
          p1     == c0.points \cup { Point(s1, h1, TRUE) }
      IN
      IF s1.skip_buffers_left > 0 THEN
          process_loop([c EXCEPT !.self = [s1 EXCEPT !.skip_buffers_left = @ - 1],
                                 !.h = h1, !.points = p1], verdicts)
      ELSE
        LET s2 == BufferChunk(s1, chunk)
            h2 == IF s1.in_phrase THEN [h1 EXCEPT !.nphrase = @ + 1] ELSE h1
            s3 == [s2 EXCEPT !.current_seconds = @ + 1]
            p3 == p1 \cup { Point(s2, h2, TRUE), Point(s3, h2, TRUE) }
        IN
        IF TimedOut(s3) THEN
            LET t == [TickMaxBuffers(s3) EXCEPT !.events = TimeoutCommand(s3).events]
            IN  [c EXCEPT !.self = t,
                          !.out = Some(TimeoutCommand(s3)), !.h = h2,
                          !.points = p3 \cup { Point(TickMaxBuffers(s3), h2, TRUE),
                                               Point(t, h2, TRUE) }]
        ELSE
          LET s4 == TickMaxBuffers(s3)
              p4 == p3 \cup { Point(s4, h2, TRUE) }
          IN
          IF FirstChunkExempt(s4) THEN
              process_loop([c EXCEPT !.self = [s4 EXCEPT !.first_chunk = FALSE],
                                     !.h = h2, !.points = p4], verdicts)
          ELSE IF Head(verdicts) = "raise" THEN
              [c EXCEPT !.self = s4, !.raised = TRUE, !.h = h2, !.points = p4]
          ELSE
            LET silence == is_silence(Head(verdicts) = "speech")
                is_speech == IsSpeech(silence)
                h3 == [h2 EXCEPT !.sil = @ \o << silence >>]
                p5 == p4 \cup { Point(s4, h3, TRUE) }
            IN
            IF PrePhraseSilence(s4, is_speech) THEN
                LET s5 == [s4 EXCEPT !.events =
                                 @ \o << Event("silence", s4.current_seconds) >>]
                IN  process_loop(
                        [c EXCEPT !.self = s5,
                                  !.h = NoteChunk(h3, chunk, silence, s1, s5),
                                  !.points = p5],
                        Tail(verdicts))
            ELSE
              LET e  == EdgeEvents(s4, is_speech)
                  r  == StateChange(e, is_speech)
                  h4 == NoteChunk(IF r.self.in_phrase /\ ~s4.in_phrase
                                    THEN [h3 EXCEPT !.started_at = Len(h3.sil)]
                                  ELSE h3,
                                  chunk, silence, s1, r.self)
                  p6 == p5 \cup { Point(x, h3, TRUE) :
                                     x \in Between(s4, e, EdgeOrder)
                                             \cup Between(e, r.self, StateOrder) }
              IN
              IF r.out # None
              THEN [c EXCEPT !.self = r.self, !.out = r.out, !.h = h4, !.points = p6]
              ELSE process_loop([c EXCEPT !.self = r.self, !.h = h4, !.points = p6],
                                Tail(verdicts))

\* RpizCommandRecorder.process_chunk
process_chunk(self, audio_chunk, verdicts, h) ==
    LET fed == [h EXCEPT !.fed = @ + Len(audio_chunk)] IN
    process_loop([self |-> [self EXCEPT !.current_chunk = @ \o audio_chunk],
                  out |-> None, raised |-> FALSE, h |-> fed,
                  points |-> { Point(self, fed, FALSE) }],
                 verdicts)

(***************************************************************************)
(* State.                                                                  *)
(*   pc    where the main loop is: "listening" (wake-word loop),           *)
(*         "detected" (wake word heard, record() about to be called),      *)
(*         "recording" (inside the for loop of record()), "returned"       *)
(*         (record() returned rslt), "asr" (the audio has been posted to   *)
(*         the speech-to-text endpoint), "nlu" (the text has been posted   *)
(*         to the intent endpoint), "crashed" (an exception left the main  *)
(*         loop: the program ends, after "except KeyboardInterrupt" if it  *)
(*         was one)                                                        *)
(*   i     the loop variable of record()                                   *)
(*   rec   the RpizCommandRecorder's session attributes                    *)
(*   rslt  what record() returned                                          *)
(*   hist  what happened in the session (see NewHistory)                   *)
(*   tape  the input of one record() call, kept to feed a second call the  *)
(*         same stream: mode "off", "rec" (being written) or "play"        *)
(*   call  a call of one of the recorder's functions on its own (the       *)
(*         constructor, the classifier): its arguments and its outcome     *)
(***************************************************************************)
VARIABLES pc, i, rec, rslt, hist, tape, call

vars == << pc, i, rec, rslt, hist, tape, call >>

NoCall == [op |-> "none", args |-> << >>, done |-> FALSE, out |-> None]

\* mic.read(): the next n bytes of the session's stream.
MicBytes(from, n) == [k \in 1..n |-> from + k]

\* The most chunks one process_chunk call can extract: at most chunk_size
\* bytes are left over from the call before.
MaxChunksPerCall == (chunk_size + MaxReadBytes) \div chunk_size

\* The chunks the while loop of process_chunk extracts from an accumulator
\* of len bytes.
ChunksAvailable(len) == IF len > chunk_size THEN (len - 1) \div chunk_size ELSE 0

\* One input of record(): the bytes a read returned and the classifier's
\* answers, or an exception raised by the read.
Inputs ==
    [kind : {"data"}, n : ReadSizes, verdicts : [1..MaxChunksPerCall -> Verdicts]]
    \cup { [kind |-> "fault", n |-> 0, verdicts |-> << >>] }

NoTape == [mode |-> "off", inputs |-> << >>, pos |-> 0, out |-> None]

\* The inputs the next read can have: any, or the one the tape prescribes.
InputsNow ==
    IF tape.mode = "play" /\ tape.pos < Len(tape.inputs)
      THEN { tape.inputs[tape.pos + 1] }
    ELSE Inputs

TapeAfter(in) ==
    IF tape.mode = "rec" THEN [tape EXCEPT !.inputs = @ \o << in >>]
    ELSE IF tape.mode = "play" THEN [tape EXCEPT !.pos = @ + 1]
    ELSE tape

\* What an exception that is no Exception (KeyboardInterrupt, SystemExit)
\* does when raised inside record(): "except Exception" does not catch
\* it, record() returns nothing, and the main loop is left (a
\* KeyboardInterrupt is caught after the loop, "except KeyboardInterrupt").
record_interrupt == [pc |-> "crashed"]

\* No handler: the exception leaves record() and the main loop.
record_except_propagates == [pc |-> "crashed", rslt |-> None]

\* "except Exception as e: _LOGGER.exception(...)" and the "return None"
\* after it: where the caller continues and what it gets.
record_except == [pc |-> "returned", rslt |-> None]

\* The rest of a loop iteration of record() once process_chunk is over
\* (with a command, with None, or with an exception): where control goes,
\* what record() returns, and the iterations completed.  raised: an
\* Exception was raised in the try block, by process_chunk or, after it
\* returned a command, by print("* done recording").
RecordStep(out, raised, idx) ==
    IF raised THEN [pc |-> record_except.pc, rslt |-> record_except.rslt, i |-> idx]
    ELSE IF out # None THEN [pc |-> "returned", rslt |-> out, i |-> idx]
    ELSE IF idx + 1 < RecordIterations
      THEN [pc |-> "recording", rslt |-> None, i |-> idx + 1]
    ELSE [pc |-> "returned", rslt |-> None, i |-> idx + 1]

\* Whether print("* done recording") raises an Exception (stdout closed, a
\* broken pipe): it is called only with a command in hand.
PrintFails(c) == IF c.out # None /\ ~c.raised THEN BOOLEAN ELSE {FALSE}

\* The states an interrupt raised inside reset() leaves the recorder in:
\* before its first assignment, between two of them, and after the last
\* (in print("* recording")).
ResetPoints(self) ==
    { Point(Partial(self, reset(self), ResetOrder, k), NewHistory, k < Len(ResetOrder)) :
        k \in 0..Len(ResetOrder) }

Init ==
    /\ pc = "listening"
    /\ i = 0
    /\ rec = NewRecorder
    /\ rslt = None
    /\ hist = NewHistory
    /\ tape = NoTape
    /\ call = NoCall

\* Main loop: mic.read() or porcupine.process() of the wake-word loop
\* raises (a device error, a KeyboardInterrupt).  Nothing but "except
\* KeyboardInterrupt" after the loop handles it: the program ends.
WakeWordLoopRaises ==
    /\ pc = "listening"
    /\ pc' = "crashed"
    /\ UNCHANGED << i, rec, rslt, hist, tape, call >>

\* Main loop: porcupine.process() reports a keyword; the inner loop breaks.
WakeWordDetected ==
    /\ pc = "listening"
    /\ pc' = "detected"
    /\ UNCHANGED << i, rec, rslt, hist, tape, call >>

\* record() is entered: reset(), print("* recording"), and the for loop
\* starts (or, with no iteration to run, ends at once).  If the print raises
\* an Exception, it is caught and logged and record() returns None without a
\* read.  A KeyboardInterrupt or SystemExit leaves record(), and the
\* recorder as far as reset() had got.  The tape is dropped when the
\* session ends for a reason that is not in the stream.
RecordBegin ==
    /\ pc = "detected"
    /\ i' = 0
    /\ rslt' = None
    /\ \/ \E printed \in BOOLEAN : \E intr \in (IF printed THEN {FALSE} ELSE BOOLEAN) :
            /\ rec' = reset(rec)
            /\ hist' = [NewHistory EXCEPT !.faulted = ~printed, !.interrupted = intr]
            /\ pc' = IF intr THEN record_interrupt.pc
                     ELSE IF ~printed THEN record_except.pc
                     ELSE IF RecordIterations > 0 THEN "recording" ELSE "returned"
            /\ tape' = IF printed THEN tape ELSE NoTape
       \/ \E p \in ResetPoints(rec) :
            /\ rec' = p.self
            /\ hist' = [p.h EXCEPT !.interrupted = TRUE, !.midway = p.mid]
            /\ pc' = record_interrupt.pc
            /\ tape' = NoTape
    /\ UNCHANGED call

\* One iteration of the for loop of record(): mic.read(), process_chunk(),
\* "if rslt is not None: print(...); return rslt"; after the last
\* iteration, the "return None" that ends record().  An Exception raised by
\* process_chunk or by the print is caught and logged, and record() returns
\* None.  A KeyboardInterrupt or SystemExit leaves record(): once
\* process_chunk is over (while record() prints or logs, or as the loop
\* goes on), or at any statement of process_chunk, with the recorder as
\* that statement found it.
RecordIteration ==
    /\ pc = "recording"
    /\ i < RecordIterations
    /\ \E in \in InputsNow :
        /\ in.kind = "data"
        \* the classifier is asked about no more chunks than are extracted
        /\ \A k \in 1..MaxChunksPerCall :
               k > ChunksAvailable(Len(rec.current_chunk) + in.n)
                   => in.verdicts[k] = "silence"
        /\ \E c \in { process_chunk(rec, MicBytes(hist.fed, in.n), in.verdicts, hist) } :
           LET used == (Len(c.h.sil) - Len(hist.sil)) + (IF c.raised THEN 1 ELSE 0)
           IN
           \* answers the classifier was never asked for are fixed
           /\ \A k \in 1..MaxChunksPerCall : k > used => in.verdicts[k] = "silence"
           /\ \/ \E pf \in PrintFails(c) :
                  \E step \in { RecordStep(c.out, c.raised \/ pf, i) } :
                  \E intr \in BOOLEAN :
                    /\ rec' = c.self
                    /\ hist' = [c.h EXCEPT !.reads = @ + 1,
                                           !.faulted = c.raised \/ pf,
                                           !.interrupted = intr,
                                           !.out = IF @ = None THEN c.out ELSE @]
                    /\ tape' = IF intr \/ pf THEN NoTape ELSE TapeAfter(in)
                    /\ pc' = IF intr THEN record_interrupt.pc ELSE step.pc
                    /\ rslt' = IF intr THEN rslt ELSE step.rslt
                    /\ i' = step.i
              \/ \E p \in c.points \cup { Point(rec, hist, FALSE) } :
                    /\ rec' = p.self
                    /\ hist' = [p.h EXCEPT !.reads = @ + 1, !.interrupted = TRUE,
                                           !.midway = p.mid]
                    /\ tape' = NoTape
                    /\ pc' = record_interrupt.pc
                    /\ rslt' = rslt
                    /\ i' = i
    /\ UNCHANGED call

\* mic.read() raises an Exception (OSError, ...) inside record(): it is
\* caught and logged, and record() returns None, unless a KeyboardInterrupt
\* or SystemExit is raised while it is logged.
RecordReadFault ==
    /\ pc = "recording"
    /\ i < RecordIterations
    /\ \E in \in InputsNow : \E intr \in BOOLEAN :
        /\ in.kind = "fault"
        /\ tape' = IF intr THEN NoTape ELSE TapeAfter(in)
        /\ hist' = [hist EXCEPT !.reads = @ + 1, !.faulted = TRUE,
                                !.interrupted = intr]
        /\ pc' = IF intr THEN record_interrupt.pc ELSE record_except.pc
        /\ rslt' = IF intr THEN rslt ELSE record_except.rslt
    /\ UNCHANGED << i, rec, call >>

\* mic.read() raises KeyboardInterrupt or SystemExit inside record() (the
\* program is stopped during the blocking read): record() does not return.
RecordInterrupted ==
    /\ pc = "recording"
    /\ i < RecordIterations
    /\ pc' = record_interrupt.pc
    /\ hist' = [hist EXCEPT !.interrupted = TRUE]
    /\ tape' = NoTape
    /\ UNCHANGED << i, rec, rslt, call >>

\* Posting whatever record() returned.
AfterRecord_Unconditional(r) == "asr"

\* "if rslt is not None:" and what follows record() in the main loop:
\* nothing (back to the wake-word loop), or to_wav_bytes(rslt.audio_data)
\* and the post to the speech-to-text endpoint; to_wav_bytes raises on a
\* command without audio.
AfterRecord(r) ==
    IF r = None THEN "listening"
    ELSE IF r[1].audio_data = None THEN "crashed"
    ELSE "asr"

\* Main loop: record() has returned; a tape being written is rewound so
\* that the next record() is fed the same stream.
MainLoopContinue ==
    /\ pc = "returned"
    /\ pc' = AfterRecord(rslt)
    /\ hist' = [hist EXCEPT !.asr_sent = (AfterRecord(rslt) = "asr")]
    /\ tape' = IF tape.mode = "rec"
                 THEN [tape EXCEPT !.mode = "play", !.pos = 0, !.out = Some(rslt)]
               ELSE IF tape.mode = "play" THEN [NoTape EXCEPT !.mode = "rec"]
               ELSE tape
    /\ UNCHANGED << i, rec, rslt, call >>

\* Main loop: a KeyboardInterrupt is raised once record() has returned,
\* before anything is posted ("if rslt is not None:", to_wav_bytes).
MainLoopInterrupted ==
    /\ pc = "returned"
    /\ pc' = "crashed"
    /\ UNCHANGED << i, rec, rslt, hist, tape, call >>

\* Main loop: the speech-to-text post ends.  A transcription with a text
\* is posted to the intent endpoint; a failed request, an error status
\* (raise_for_status) or a body without 'text' raises, and nothing in the
\* main loop catches it.
SttResponds ==
    /\ pc = "asr"
    /\ \E ok \in BOOLEAN :
         /\ pc' = IF ok THEN "nlu" ELSE "crashed"
         /\ hist' = [hist EXCEPT !.asr_ok = ok, !.nlu_sent = ok]
    /\ UNCHANGED << i, rec, rslt, tape, call >>

\* Main loop: the intent post ends, with the same two outcomes; after a
\* good response the loop goes back to the wake word.
NluResponds ==
    /\ pc = "nlu"
    /\ \E ok \in BOOLEAN : pc' = IF ok THEN "listening" ELSE "crashed"
    /\ UNCHANGED << i, rec, rslt, hist, tape, call >>

Next ==
    \/ WakeWordDetected
    \/ RecordBegin
    \/ RecordIteration
    \/ RecordReadFault
    \/ RecordInterrupted
    \/ WakeWordLoopRaises
    \/ MainLoopContinue
    \/ MainLoopInterrupted
    \/ SttResponds
    \/ NluResponds

Spec == Init /\ [][Next]_vars

\* Two record() calls in a row on the same stream.
InitTwice ==
    /\ pc = "listening"
    /\ i = 0
    /\ rec = NewRecorder
    /\ rslt = None
    /\ hist = NewHistory
    /\ tape = [NoTape EXCEPT !.mode = "rec"]
    /\ call = NoCall

SpecTwice == InitTwice /\ [][Next]_vars

TypeOK ==
    /\ pc \in {"listening", "detected", "recording", "returned", "asr", "nlu", "crashed"}
    /\ i \in 0..RecordIterations
    /\ Len(rec.current_chunk) <= chunk_size + MaxReadBytes

(***************************************************************************)
(* The constructor on its own, for the configurations of ConstructArgs.    *)
(***************************************************************************)
\* Sample rates webrtcvad accepts.
SampleRates == {8000, 16000, 32000, 48000}

\* Chunk sizes are multiples of 160 bytes (10 ms at 8000 Hz), up to
\* MaxChunkSteps of them.
MaxChunkSteps == 12

ChunkSizes == { 160 * k : k \in 1..MaxChunkSteps }

ConstructArgs ==
    [sample_rate : SampleRates, chunk_size : ChunkSizes, silence_method : SilenceMethods]

InitConstruct ==
    /\ pc = "listening"
    /\ i = 0
    /\ rec = NewRecorder
    /\ rslt = None
    /\ hist = NewHistory
    /\ tape = NoTape
    /\ call \in [op : {"construct"}, args : ConstructArgs, done : {FALSE}, out : {None}]

\* RpizCommandRecorder(mic, silence_method), with the sample rate and the
\* chunk size __init__ assigns taken from the arguments.
ConstructRecorder ==
    /\ call.op = "construct"
    /\ ~call.done
    /\ call' = [call EXCEPT
                  !.done = TRUE,
                  !.out = Some(Construct(call.args.sample_rate, call.args.chunk_size,
                                         call.args.silence_method))]
    /\ UNCHANGED << pc, i, rec, rslt, hist, tape >>

NextConstruct == ConstructRecorder

SpecConstruct == InitConstruct /\ [][NextConstruct]_vars

(***************************************************************************)
(* The classifier on its own: is_silence on a recorder of each silence     *)
(* method whose thresholds have been given (they are plain attributes of   *)
(* the recorder), for chunks of every VAD answer and energy.               *)
(***************************************************************************)
\* Largest debiased energy of a chunk, and largest threshold.
MaxEnergy == 3

ClassifyArgs ==
    [ silence_method : SilenceMethods,
      vad_speech : BOOLEAN,
      energy : 0..MaxEnergy,
      max_energy : {None} \cup { Some(e) : e \in 0..MaxEnergy },
      ratio_threshold : 1..MaxEnergy,
      energy_threshold : 1..MaxEnergy ]

InitClassify ==
    /\ pc = "listening"
    /\ i = 0
    /\ rec = NewRecorder
    /\ rslt = None
    /\ hist = NewHistory
    /\ tape = NoTape
    /\ call \in [op : {"is_silence"}, args : ClassifyArgs, done : {FALSE}, out : {None}]

\* recorder.is_silence(chunk)
Classify ==
    /\ call.op = "is_silence"
    /\ ~call.done
    /\ call' = [call EXCEPT
                  !.done = TRUE,
                  !.out = Some(is_silence_of(
                              ClassifierAttrs(call.args.silence_method,
                                              Some(call.args.ratio_threshold),
                                              Some(call.args.energy_threshold),
                                              call.args.max_energy),
                              call.args.vad_speech, call.args.energy))]
    /\ UNCHANGED << pc, i, rec, rslt, hist, tape >>

NextClassify == Classify

SpecClassify == InitClassify /\ [][NextClassify]_vars

(***************************************************************************)
(* Properties.                                                             *)
(***************************************************************************)
EventTypes(events) == { events[k].type : k \in 1..Len(events) }

\* record() has returned a Success command (rslt keeps it until the next
\* record() begins).
Succeeded == pc # "recording" /\ rslt # None /\ rslt[1].result = "success"

\* The classifier's answers for s speech chunks followed by k silent ones.
CanonicalRun(s, k) == [j \in 1..(s + k) |-> j > s]

\* The speech of the canonical sequence: speech_buffers chunks and then
\* more than min_seconds of speech.
MinSpeech == speech_buffers + min_buffers + 1

\* The session so far is the canonical sequence ending in k silent chunks:
\* the first chunk (never classified), at least MinSpeech speech chunks, k
\* silent chunks.
Canonical(k) ==
    \E s \in MinSpeech..Len(hist.sil) : hist.sil = CanonicalRun(s, k)

\* The silent chunks it takes to end a phrase whose minimum has passed: one
\* to enter after_phrase, silence_confirm_buffers to count down, one to stop.
SilenceToStop == silence_confirm_buffers + 2

\* C1 as claimed: the canonical sequence with silence_confirm_buffers silent
\* chunks at its end has returned Success.
C1_Original == Canonical(silence_confirm_buffers) => Succeeded

\* process_chunk has returned a Success command.
GaveSuccess == hist.out # None /\ hist.out[1].result = "success"

\* C1 amended: on the canonical sequence the engine returns Success on the
\* (silence_confirm_buffers + 2)-th consecutive silent chunk, and not on an
\* earlier one.
C1_SuccessAfterConfirmedSilence ==
    \A k \in 1..SilenceToStop :
        (Canonical(k) /\ ~hist.midway) =>
            /\ GaveSuccess <=> k = SilenceToStop
            /\ Succeeded => GaveSuccess

C1_Witness == Canonical(SilenceToStop) /\ Succeeded

\* C2 as claimed: the event log of the canonical Success is [Started, Stopped].
C2_Original ==
    (Succeeded /\ Canonical(SilenceToStop))
        => Types(rslt[1].events) = << "started", "stopped" >>

\* C2 amended: the event log of the canonical Success is
\* [Speech, Started, Silence, Stopped].
C2_CanonicalEvents ==
    (Succeeded /\ \E k \in 1..Len(hist.sil) : Canonical(k))
        => Types(rslt[1].events) = << "speech", "started", "silence", "stopped" >>

C2_Witness ==
    /\ Succeeded
    /\ Canonical(SilenceToStop)
    /\ Len(rslt[1].events) = 4
    /\ rslt[1].events[2].type = "started"

\* record() ran all its iterations and no Stopped event was emitted.
CeilingReached ==
    /\ pc = "returned"
    /\ ~hist.faulted
    /\ hist.reads = RecordIterations
    /\ "stopped" \notin EventTypes(rec.events)

\* C3 as claimed: reaching the bound without Stopped yields a Failure
\* command whose last event is Timeout.
C3_Claim ==
    CeilingReached =>
        /\ rslt # None
        /\ rslt[1].result = "failure"
        /\ rslt[1].events # << >>
        /\ rslt[1].events[Len(rslt[1].events)].type = "timeout"

\* The outputs the claim compares: result, event types, audio.
SameOutput(a, b) ==
    IF a = None \/ b = None THEN a = b
    ELSE /\ a[1].result = b[1].result
         /\ Types(a[1].events) = Types(b[1].events)
         /\ a[1].audio_data = b[1].audio_data

\* Nothing of an earlier session is left in the recorder.
FreshSession ==
    /\ rec.events = << >> /\ rec.before_phrase_chunks = << >>
    /\ rec.phrase_buffer = << >> /\ rec.current_chunk = << >>
    /\ ~rec.in_phrase /\ ~rec.after_phrase /\ ~rec.last_speech
    /\ rec.first_chunk
    /\ rec.current_seconds = 0 /\ rec.min_phrase_buffers = 0
    /\ rec.speech_buffers_left = 1 /\ rec.silence_buffers = 1
    /\ rec.skip_buffers_left = 0 /\ rec.max_buffers = None

\* C4: a second record() fed the stream of the first returns the same
\* output after the same number of reads, and every session makes its first
\* read with a recorder that holds nothing of the session before.
C4_SameStreamSameOutput ==
    /\ (tape.mode = "play" /\ pc = "returned")
          => (SameOutput(rslt, tape.out[1]) /\ tape.pos = Len(tape.inputs))
    /\ (pc = "recording" /\ hist.reads = 0) => FreshSession

C4_Witness ==
    /\ tape.mode = "play"
    /\ Succeeded
    /\ tape.pos > 2
    /\ rec.current_chunk # << >>

\* C5: an Exception raised inside record(), by a read, by the processing of
\* its bytes or by a print, makes record() return None: it is caught, no
\* command is returned and nothing is posted, and it never leaves record().
\* Only the interrupt that stops the program (KeyboardInterrupt, or
\* SystemExit) leaves record().
C5_FaultGivesNoResult ==
    /\ [](hist.faulted => (rslt = None /\ ~hist.asr_sent))
    /\ [][(~hist.faulted /\ hist'.faulted)
            => (/\ pc \in {"detected", "recording"}
                /\ rslt' = None
                /\ pc' = "returned" \/ hist'.interrupted)]_vars
    /\ [][(pc \in {"detected", "recording"} /\ pc' = "crashed")
            => (hist'.interrupted /\ rslt' = None /\ ~hist'.asr_sent)]_vars
    /\ [](hist.interrupted => pc = "crashed")

C5_Witness ==
    /\ hist.faulted
    /\ pc = "returned"
    /\ rslt = None
    /\ rec.in_phrase
    /\ hist.reads > 1

\* C6 as claimed, for the for loop of record(): it reads at most
\* RecordIterations times, reads on only while process_chunk has given no
\* command, and what it returns is the first command process_chunk gave
\* it, or None when the ceiling was reached without one or a read or the
\* processing of its bytes raised.
C6_Claim ==
    /\ hist.reads <= RecordIterations
    /\ pc = "recording" => (hist.out = None /\ hist.reads = i /\ i < RecordIterations)
    /\ pc = "returned" =>
          IF hist.out # None THEN rslt = hist.out
          ELSE rslt = None /\ (hist.faulted \/ hist.reads = RecordIterations)

\* Chunk j of a session is bytes (j-1)*chunk_size+1 .. j*chunk_size.
ChunksInOrder ==
    \A j \in 1..Len(hist.chunks) :
        hist.chunks[j] = [k \in 1..chunk_size |-> (j - 1) * chunk_size + k]

\* C7 as claimed: with N bytes fed and no command returned, N \div
\* chunk_size chunks were extracted, in order, and N % chunk_size bytes are
\* left over.
C7_Claim ==
    (pc = "recording") =>
        /\ ChunksInOrder
        /\ Len(hist.chunks) = hist.fed \div chunk_size
        /\ Len(rec.current_chunk) = hist.fed % chunk_size

\* seq is the run of stream bytes that ends with byte last.
Contiguous(seq, last) ==
    \A k \in 1..Len(seq) : seq[k] = last - Len(seq) + k

\* C8: the audio of a Success is pre-roll then phrase, a run of whole chunks
\* of the stream ending with the chunk that emitted Stopped.
C8_AudioIsContiguous ==
    Succeeded =>
        LET audio == rslt[1].audio_data[1] IN
        /\ ChunksInOrder
        /\ audio = Concat(rec.before_phrase_chunks) \o rec.phrase_buffer
        /\ Contiguous(audio, chunk_size * Len(hist.chunks))
        /\ Len(audio) = (Len(rec.before_phrase_chunks) + hist.nphrase) * chunk_size
        /\ Len(audio) > 0

C8_Witness ==
    /\ Succeeded
    /\ hist.nphrase > min_buffers + SilenceToStop
    /\ rslt[1].audio_data[1][1] > chunk_size

\* The pre-roll never holds more than before_buffers chunks.
C9_Bounded ==
    /\ Len(rec.before_phrase_chunks) <= before_buffers
    /\ Succeeded =>
         Len(rslt[1].audio_data[1]) - hist.nphrase * chunk_size
             <= before_buffers * chunk_size

\* C9: the pre-roll is bounded by before_buffers chunks, in the recorder and
\* in the audio of a Success, and does not change during the phrase.
C9_PreRollBounded ==
    /\ []C9_Bounded
    /\ [][(pc = "recording" /\ rec.in_phrase /\ rec'.in_phrase)
            => rec'.before_phrase_chunks = rec.before_phrase_chunks]_vars

C9_Witness ==
    /\ Succeeded
    /\ Len(rec.before_phrase_chunks) = before_buffers
    /\ Len(hist.chunks) - hist.nphrase > before_buffers

\* Every chunk classified so far was classified as silence.
AllSilence == \A k \in 1..Len(hist.sil) : hist.sil[k]

\* C10: while every chunk is classified as silence, no Started event is
\* logged, in_phrase is false and no Success is returned.
C10_SilenceNeverStarts ==
    (AllSilence /\ ~hist.midway) =>
        /\ ~rec.in_phrase
        /\ "started" \notin EventTypes(rec.events)
        /\ ~(rslt # None /\ rslt[1].result = "success")

C10_Witness ==
    /\ AllSilence
    /\ Len(hist.sil) > before_buffers + 1
    /\ pc = "returned"
    /\ ~hist.faulted

\* A finished call of the constructor.
Constructed == call.op = "construct" /\ call.done

\* C11 as stated: construction succeeds only if chunk_size / sample_rate *
\* 1000 is 10, 20 or 30; for any other value it fails.
C11_Original ==
    Constructed =>
        (call.out[1].ok =>
            \E ms \in {10, 20, 30} : 1000 * call.args.chunk_size = ms * call.args.sample_rate)

\* C11: for every sample rate, chunk size and silence method, construction
\* succeeds only if the chunk, taken as bytes of 16-bit mono samples, lasts
\* 10, 20 or 30 ms (1000 * (chunk_size / 2) / sample_rate); for any other
\* value it fails.  With the thresholds __init__ sets, the method VAD_ONLY
\* and such a duration together are also sufficient.
C11_ConstructionChecksHalvedChunk ==
    Constructed =>
        LET sr == call.args.sample_rate
            cs == call.args.chunk_size
            valid == \E ms \in {10, 20, 30} : 1000 * cs = 2 * ms * sr
        IN  /\ call.out[1].ok => valid
            /\ ~valid => ~call.out[1].ok
            /\ call.out[1].ok <=> (valid /\ call.args.silence_method = "vad_only")

\* The program's configuration is constructed: 960 bytes at 16000 Hz, i.e.
\* chunk_size / sample_rate * 1000 = 60.
C11_Witness ==
    /\ Constructed
    /\ call.args = [sample_rate |-> 16000, chunk_size |-> 960, silence_method |-> "vad_only"]
    /\ call.out[1].ok

\* A finished call of the classifier.
Classified == call.op = "is_silence" /\ call.done

C13_Requests ==
    /\ pc \in {"recording", "returned"} => (~hist.asr_sent /\ ~hist.nlu_sent)
    /\ hist.asr_sent => (rslt # None /\ rslt[1].result = "success" /\ ~hist.faulted)
    /\ hist.nlu_sent => (hist.asr_sent /\ hist.asr_ok)
    /\ pc = "asr" => (hist.asr_sent /\ ~hist.nlu_sent)
    /\ pc = "nlu" => hist.nlu_sent

\* The steps of the main loop the claim is about.
C13_Steps ==
    /\ pc' = "detected" => pc \in {"listening", "detected"}
    /\ pc' = "recording" => pc \in {"detected", "recording"}
    /\ (pc' = "returned" /\ pc # "recording") => pc \in {"detected", "returned"}
    /\ (pc = "returned" /\ rslt = None /\ pc' \notin {pc, "crashed"})
          => (pc' = "listening" /\ ~hist'.asr_sent /\ ~hist'.nlu_sent)
    /\ (pc = "returned" /\ pc' = "crashed") => (~hist'.asr_sent /\ ~hist'.nlu_sent)
    /\ (~hist.asr_sent /\ hist'.asr_sent) => (pc = "returned" /\ rslt # None)
    /\ (~hist.nlu_sent /\ hist'.nlu_sent) => (pc = "asr" /\ hist'.asr_ok)

\* C13: a recording starts only after a wake-word detection; a recording
\* that ends without a command (ceiling reached or fault) sends no request
\* to the speech-to-text or the intent endpoint and, unless the program is
\* stopped by its interrupt, takes the loop back to the wake word; the
\* intent endpoint is contacted only after a good speech-to-text response
\* for the same recording.
C13_RequestsFollowSuccess == []C13_Requests /\ [][C13_Steps]_vars

\* The intent endpoint has been contacted for a successful recording, and
\* elsewhere a faulted recording has gone back to the wake word unposted.
C13_Witness ==
    /\ pc = "nlu"
    /\ Succeeded
    /\ hist.asr_ok
    /\ hist.nlu_sent

C13_WitnessNoResult ==
    /\ pc = "listening"
    /\ hist.reads = RecordIterations
    /\ rslt = None
    /\ ~hist.asr_sent

\* record() has reset the recorder and has not read yet.
JustReset == pc = "recording" /\ hist.reads = 0

\* C14: immediately after reset the chunks still to skip are
\* ceil(skip_seconds / chunk_seconds), the speech chunks still to confirm
\* are ceil(speech_seconds / chunk_seconds), in_phrase and after_phrase are
\* false, and the pre-roll and the phrase buffer are empty.
C14_Claim ==
    JustReset =>
        /\ rec.skip_buffers_left = skip_buffers
        /\ rec.speech_buffers_left = speech_buffers
        /\ ~rec.in_phrase
        /\ ~rec.after_phrase
        /\ rec.before_phrase_chunks = << >>
        /\ rec.phrase_buffer = << >>

\* The last chunk classified was silent and no phrase has started.
AfterPrePhraseSilence ==
    /\ pc = "recording"
    /\ ~rec.in_phrase
    /\ hist.sil # << >>
    /\ hist.sil[Len(hist.sil)]

\* C15: a silent chunk while no phrase has started resets the speech chunks
\* still to confirm to ceil(speech_seconds / chunk_seconds); Started is
\* emitted only on a speech chunk immediately preceded by at least that
\* many consecutive speech chunks, so speech chunks separated by silence
\* never start a phrase.
C15_Claim ==
    /\ AfterPrePhraseSilence => rec.speech_buffers_left = speech_buffers
    /\ hist.started_at > 0 =>
          /\ hist.started_at > speech_buffers
          /\ \A j \in (hist.started_at - speech_buffers)..hist.started_at : ~hist.sil[j]

\* Started on a speech chunk that follows a silent one.
C15_StartedAfterSilence ==
    /\ hist.started_at > 1
    /\ hist.sil[hist.started_at - 1]

\* C16: Stopped is emitted only at the end of a run of consecutive silent
\* chunks at least as long as the silence window,
\* ceil(silence_seconds / chunk_seconds); silence seen before speech
\* resumed does not count.
C16_Claim ==
    Succeeded =>
        /\ Len(hist.sil) >= silence_confirm_buffers
        /\ \A j \in (Len(hist.sil) - silence_confirm_buffers + 1)..Len(hist.sil) :
              hist.sil[j]

\* Chunks classified after the one that emitted Started.
SinceStarted == Len(hist.sil) - hist.started_at

\* C17: at least ceil(min_seconds / chunk_seconds) chunks are processed
\* between the Started chunk and the Stopped chunk, whatever their
\* classification: while the minimum is running every chunk of the phrase
\* decrements it and does nothing else to the phrase state, and silence
\* inside it neither ends the phrase nor sets after_phrase.  Stopped comes
\* no sooner than the minimum and the silence it takes to stop after it.
C17_MinimumPhrase ==
    /\ (hist.started_at > 0 /\ ~hist.midway) =>
          /\ rec.in_phrase
          /\ rec.min_phrase_buffers =
                (IF SinceStarted < min_buffers THEN min_buffers - SinceStarted ELSE 0)
          /\ SinceStarted <= min_buffers => (~rec.after_phrase /\ hist.out = None)
    /\ GaveSuccess => SinceStarted >= min_buffers + SilenceToStop

\* A phrase completed although every chunk of its minimum was silent, a
\* silence longer than the silence window.
C17_Witness ==
    /\ Succeeded
    /\ hist.started_at > 0
    /\ min_buffers > silence_confirm_buffers
    /\ \A j \in 1..min_buffers : hist.sil[hist.started_at + j]

\* current_seconds, in buffers, when the k-th classified chunk is processed:
\* the unclassified first chunk and the k chunks count.
ChunkTime(k) == k + 1

\* The event log has an event of the type for the k-th classified chunk.
HasEvent(type, k) ==
    \E e \in 1..Len(rec.events) :
        rec.events[e].type = type /\ rec.events[e].time = ChunkTime(k)

\* C18: Speech and Silence events are edge-triggered.  For every two
\* consecutive classified chunks, Speech is logged on the later one exactly
\* when the earlier was silence and the later is speech (also after
\* silence that precedes the phrase), and, once a phrase has started,
\* Silence is logged exactly when the earlier was speech and the later is
\* silence.
C18_Claim ==
    \A j \in 1..(Len(hist.sil) - 1) :
        /\ HasEvent("speech", j + 1) <=> (hist.sil[j] /\ ~hist.sil[j + 1])
        /\ (hist.started_at > 0 /\ j >= hist.started_at) =>
              (HasEvent("silence", j + 1) <=> (~hist.sil[j] /\ hist.sil[j + 1]))

\* The first chunk of the session, and only it, has been processed.
FirstChunkDone == Len(hist.chunks) = 1

\* The first chunk has not been classified and has changed nothing of
\* the phrase state or the event log.
FirstChunkUnclassified ==
    /\ hist.sil = << >>
    /\ rec.events = << >>
    /\ rec.speech_buffers_left = reset(rec).speech_buffers_left
    /\ rec.min_phrase_buffers = reset(rec).min_phrase_buffers
    /\ rec.silence_buffers = reset(rec).silence_buffers
    /\ ~rec.in_phrase /\ ~rec.after_phrase /\ ~rec.last_speech
    /\ rec.phrase_buffer = << >>

\* The bytes of the first chunk are in the audio of the command returned.
FirstChunkInAudio ==
    \E k \in 1..Len(rslt[1].audio_data[1]) : rslt[1].audio_data[1][k] <= chunk_size

\* C19 as stated: the first chunk is not classified, logs no event, changes
\* no counter or flag, is not placed in the pre-roll and never appears in
\* the audio returned.
C19_Original ==
    /\ FirstChunkDone => (FirstChunkUnclassified /\ rec.before_phrase_chunks = << >>)
    /\ Succeeded => ~FirstChunkInAudio

\* C19: the first chunk is not classified: it is never passed to the
\* classifier, logs no event and changes no phrase counter or flag.  It is
\* buffered like any chunk before the exemption applies: it enters the
\* pre-roll, counts in the elapsed time, and opens the audio of a Success
\* whenever the pre-roll has not evicted it by the time the phrase starts.
C19_FirstChunkBufferedUnclassified ==
    /\ Len(hist.sil) < Len(hist.chunks) \/ hist.chunks = << >>
    /\ \A e \in 1..Len(rec.events) : rec.events[e].time >= 2
    /\ (FirstChunkDone /\ ~hist.midway) =>
          /\ FirstChunkUnclassified
          /\ ~rec.first_chunk
          /\ rec.before_phrase_chunks = << hist.chunks[1] >>
          /\ rec.current_seconds = 1
    /\ Succeeded =>
          (FirstChunkInAudio <=> Len(hist.chunks) - hist.nphrase <= before_buffers)
    /\ (Succeeded /\ FirstChunkInAudio) =>
          SubSeq(rslt[1].audio_data[1], 1, chunk_size) = hist.chunks[1]

\* A Success whose audio begins with the first chunk of the session.
C19_Witness ==
    /\ Succeeded
    /\ FirstChunkInAudio
    /\ rslt[1].audio_data[1][1] = 1

\* C20: a silent chunk processed while no phrase has started appends
\* exactly one Silence event and leaves the speech and silence counts, the
\* minimum, in_phrase, after_phrase and last_speech as they were; only the
\* pre-roll, the elapsed time and the event log change.
C20_PrePhraseSilenceOnlyLogs ==
    hist.pps # None =>
        LET b == hist.pps[1].before
            a == hist.pps[1].after
        IN  /\ a.events = b.events \o << Event("silence", a.current_seconds) >>
            /\ a.speech_buffers_left = b.speech_buffers_left
            /\ a.in_phrase = b.in_phrase
            /\ a.after_phrase = b.after_phrase
            /\ a.min_phrase_buffers = b.min_phrase_buffers
            /\ a.silence_buffers = b.silence_buffers
            /\ a.last_speech = b.last_speech
            /\ a.phrase_buffer = b.phrase_buffer
            /\ a.current_seconds = b.current_seconds + 1
            /\ a.before_phrase_chunks # << >>
            /\ a.before_phrase_chunks[Len(a.before_phrase_chunks)] = hist.pps[1].chunk

\* Silence before the phrase, after a speech chunk: last_speech is set,
\* the speech count is used up, and the pre-roll is full.
C20_Witness ==
    /\ hist.pps # None
    /\ hist.pps[1].before.last_speech
    /\ hist.pps[1].before.speech_buffers_left = 0
    /\ Len(hist.pps[1].before.before_phrase_chunks) = before_buffers
    /\ hist.pps[1].after.before_phrase_chunks # hist.pps[1].before.before_phrase_chunks

\* The positions of the events of a type in an event log.
EventsOfType(events, type) == { e \in 1..Len(events) : events[e].type = type }

\* What the claim says of a command record() returned.
WellFormedCommand(cmd) ==
    /\ cmd.result = "success"
    /\ cmd.audio_data # None
    /\ cmd.audio_data[1] # << >>
    /\ Cardinality(EventsOfType(cmd.events, "started")) = 1
    /\ Cardinality(EventsOfType(cmd.events, "stopped")) = 1
    /\ \A a \in EventsOfType(cmd.events, "started") :
         \A b \in EventsOfType(cmd.events, "stopped") : a < b
    /\ cmd.events[Len(cmd.events)].type = "stopped"

C21_Commands ==
    /\ rslt # None => WellFormedCommand(rslt[1])
    /\ hist.out # None => WellFormedCommand(hist.out[1])
    /\ Cardinality(EventsOfType(rec.events, "started")) <= 1
    /\ ~hist.midway => (rec.in_phrase <=> EventsOfType(rec.events, "started") # {})

\* C21: every VoiceCommand record() returns has result Success and
\* non-empty audio, and its event log has exactly one Started and exactly
\* one Stopped event, Started before Stopped and Stopped last; in_phrase,
\* once true, stays true for the rest of the session, so Started is emitted
\* at most once per session.
C21_OnlyWellFormedSuccess ==
    /\ []C21_Commands
    /\ [][(rec.in_phrase /\ pc = "recording") => rec'.in_phrase]_vars

\* A command has been returned for a phrase in which speech and silence
\* alternated more than once.
C21_Witness ==
    /\ pc = "returned"
    /\ rslt # None
    /\ Len(rslt[1].events) > 4
    /\ Cardinality(EventsOfType(rslt[1].events, "speech")) > 1

====
